---- MODULE Spec2Model ----
(***************************************************************************)
(* Model of the repository visualizer (components/RepoVisualizer.tsx):     *)
(* the lazily enriched file tree, its projection onto the visible          *)
(* node/link lists, and the asynchronous file analysis.                    *)
(***************************************************************************)
EXTENDS Integers, Sequences, FiniteSets, TLC

VARIABLES
    data,             \* the FileSystemNode tree handed to the component
    nodes,            \* useState<GraphNode[]>
    links,            \* useState<GraphLink[]>
    analyzingNodeId,  \* useState<string | null>
    focusNodeId,      \* useState<string | null>
    selectedNode,     \* last argument of onNodeSelect (App's selectedNode)
    transition,       \* target of the zoom transition running on the svg
    drag,             \* the drag gesture in progress and its subject
    alphaTarget,      \* simulation.alphaTarget(), in tenths
    alpha,            \* simulation.alpha(), in tenths; 0 is below alphaMin
    ticking,          \* the simulation's timer is running
    isDarkMode,       \* prop isDarkMode
    theme,            \* prop theme
    resets,           \* how many times the init effect has run again
    tasks,            \* analyzeFile calls suspended at an await
    uncaught,         \* an exception left a handler or an effect
    app,              \* the state of App: viewMode, data, universeData, ...
    universe,         \* the state of the mounted UserUniverse
    resolved,         \* history: the results analyzeCode resolved with
    lastOp            \* history: the handler step taken last

vars == <<data, nodes, links, analyzingNodeId, focusNodeId, selectedNode,
          transition, drag, alphaTarget, alpha, ticking, isDarkMode, theme,
          resets, tasks, uncaught, app, universe, resolved, lastOp>>

-----------------------------------------------------------------------------
(* Bounds *)

\* analyzeFile calls that may be suspended at the same time
MaxInFlight == 2

\* how many changes of the prop isDarkMode are explored
MaxResets == 1

\* how many calls of handleRepoSelect may be awaiting fetchRepoTree at once
MaxLoads == 2

\* RepoVisualizer.tsx:400: alphaTarget(0.3), in tenths
DragAlphaTarget == 3

\* RepoVisualizer.tsx:397: alpha(1), in tenths
AlphaHot == 10

-----------------------------------------------------------------------------
(* Values *)

Undefined == "<undefined>"
Null == "<null>"

FOLDER == "FOLDER"
FILE == "FILE"
FUNCTION == "FUNCTION"
CLASS == "CLASS"
COMPONENT == "COMPONENT"

\* JavaScript truthiness of an optional string
Truthy(s) == s # Undefined /\ s # Null /\ s # ""

-----------------------------------------------------------------------------
(* The tree as the ingestion functions build it *)

\* a child object as it is read through its parent's children array
ChildRef(path, name, type) == [path |-> path, name |-> name, type |-> type]

FolderNode(path, name, children) ==
    [name |-> name, type |-> FOLDER, path |-> path,
     children |-> children, childrenDefined |-> TRUE,
     content |-> Undefined, downloadUrl |-> Undefined,
     analyzed |-> FALSE, summary |-> Undefined]

FileNode(path, name, content, downloadUrl) ==
    [name |-> name, type |-> FILE, path |-> path,
     children |-> <<>>, childrenDefined |-> FALSE,
     content |-> content, downloadUrl |-> downloadUrl,
     analyzed |-> FALSE, summary |-> Undefined]

\* a dropped or selected folder "repo" holding src/main.ts (under 200000 bytes)
parseFilesToTree ==
    [root |-> "repo",
     fs |-> [p \in {"repo", "repo/src", "repo/src/main.ts"} |->
        CASE p = "repo" ->
               FolderNode(p, "repo", <<ChildRef("repo/src", "src", FOLDER)>>)
          [] p = "repo/src" ->
               FolderNode(p, "src",
                          <<ChildRef("repo/src/main.ts", "main.ts", FILE)>>)
          [] OTHER -> FileNode(p, "main.ts", "code", Undefined)]]

\* a dropped or selected folder "repo" holding a.ts and b.ts (both under
\* 200000 bytes)
parseFilesToTreeTwoFiles ==
    [root |-> "repo",
     fs |-> [p \in {"repo", "repo/a.ts", "repo/b.ts"} |->
        CASE p = "repo" ->
               FolderNode(p, "repo", <<ChildRef("repo/a.ts", "a.ts", FILE),
                                       ChildRef("repo/b.ts", "b.ts", FILE)>>)
          [] p = "repo/a.ts" -> FileNode(p, "a.ts", "code", Undefined)
          [] OTHER -> FileNode(p, "b.ts", "code", Undefined)]]

\* a GitHub URL whose tree lists src and src/main.ts
fetchGithubRepo ==
    [root |-> "root",
     fs |-> [p \in {"root", "src", "src/main.ts"} |->
        CASE p = "root" ->
               FolderNode(p, "repo", <<ChildRef("src", "src", FOLDER)>>)
          [] p = "src" ->
               FolderNode(p, "src", <<ChildRef("src/main.ts", "main.ts", FILE)>>)
          [] OTHER -> FileNode(p, "main.ts", Undefined, "url")]]

\* a repository with README.md, src and src/main.ts opened from the universe
\* view: its files carry neither content nor a download URL
fetchRepoTree ==
    [root |-> "",
     fs |-> [p \in {"", "src", "src/main.ts", "README.md"} |->
        CASE p = "" ->
               FolderNode(p, "repo", <<ChildRef("README.md", "README.md", FILE),
                                       ChildRef("src", "src", FOLDER)>>)
          [] p = "src" ->
               FolderNode(p, "src", <<ChildRef("src/main.ts", "main.ts", FILE)>>)
          [] p = "src/main.ts" -> FileNode(p, "main.ts", Undefined, Undefined)
          [] OTHER -> FileNode(p, "README.md", Undefined, Undefined)]]

\* a dropped folder "proj" holding an empty directory docs and an empty file
parseFileEntryToTree ==
    [root |-> "proj",
     fs |-> [p \in {"proj", "proj/docs", "proj/empty.txt"} |->
        CASE p = "proj" ->
               FolderNode(p, "proj", <<ChildRef("proj/docs", "docs", FOLDER),
                                       ChildRef("proj/empty.txt", "empty.txt", FILE)>>)
          [] p = "proj/docs" -> FolderNode(p, "docs", <<>>)
          [] OTHER -> FileNode(p, "empty.txt", "", Undefined)]]

Trees == {parseFilesToTree, parseFileEntryToTree, fetchGithubRepo, fetchRepoTree}

-----------------------------------------------------------------------------
(* Analysis results (AIAnalysisResult) *)

Item(name, type) == [name |-> name, type |-> type]

\* the items arrays analyzeCode is taken to answer with
ItemSeqs == {<<>>,
             <<Item("run", "FUNCTION")>>,
             <<Item("run", "FUNCTION"), Item("run", "FUNCTION")>>,
             <<Item("run", "FUNCTION"), Item("App", "COMPONENT")>>}

\* what a remote content fetch may deliver
FetchedContents == {"", "code"}

\* RepoVisualizer.tsx:562
symbolType(itemType) ==
    IF itemType = "FUNCTION" THEN FUNCTION
    ELSE IF itemType = "CLASS" THEN CLASS ELSE COMPONENT

\* variant: the symbol's path is joined with the path separator
symbolChildSlash(fileId, item) ==
    ChildRef(fileId \o "/" \o item.name, item.name, symbolType(item.type))

\* RepoVisualizer.tsx:560-566
symbolChild(fileId, item) ==
    ChildRef(fileId \o "#" \o item.name, item.name, symbolType(item.type))

\* variant: the new children are pushed onto the array already there
analyzedChildrenAppended(old, fileId, items) ==
    old \o [k \in DOMAIN items |-> symbolChild(fileId, items[k])]

\* the children array assigned to the file
analyzedChildren(old, fileId, items) ==
    [k \in DOMAIN items |-> symbolChild(fileId, items[k])]

\* variant: the children are assigned but the analyzed flag is left alone
enrichUnflagged(tree, fileId, items) ==
    [tree EXCEPT !.fs[fileId] =
        [@ EXCEPT !.summary = "summary",
                  !.children = [k \in DOMAIN items |-> symbolChild(fileId, items[k])],
                  !.childrenDefined = TRUE]]

\* RepoVisualizer.tsx:558-566: the tree mutation of a successful analysis
enrich(tree, fileId, items) ==
    [tree EXCEPT !.fs[fileId] =
        [@ EXCEPT !.analyzed = TRUE,
                  !.summary = "summary",
                  !.children = analyzedChildren(@, fileId, items),
                  !.childrenDefined = TRUE]]

-----------------------------------------------------------------------------
(* Graph projection *)

\* fx and fy are absent on a node that was never pinned; the simulation
\* tests them with == null, under which absent and null are the same
GraphNode(child, depth) ==
    [id |-> child.path, name |-> child.name, type |-> child.type,
     isExpanded |-> FALSE, depth |-> depth,
     fx |-> Null, fy |-> Null]

rootNode(tree) ==
    [GraphNode(ChildRef(tree.root, tree.fs[tree.root].name,
                        tree.fs[tree.root].type), 0)
        EXCEPT !.fx = "0", !.fy = "0"]

GraphLink(source, target) == [source |-> source, target |-> target]

\* variant: only the direct link targets are collected
findChildren(ls, parentId) ==
    {ls[k].target : k \in {j \in DOMAIN ls : ls[j].source = parentId}}

\* RepoVisualizer.tsx:466-477
RECURSIVE findDescendants(_, _)
findDescendants(ls, parentId) ==
    LET direct == {ls[k].target : k \in {j \in DOMAIN ls : ls[j].source = parentId}}
    IN  direct \cup UNION {findDescendants(ls, t) : t \in direct}

setExpanded(prev, parentId, flag) ==
    [k \in DOMAIN prev |->
        IF prev[k].id = parentId THEN [prev[k] EXCEPT !.isExpanded = flag]
        ELSE prev[k]]

\* RepoVisualizer.tsx:479-482
collapseNodes(prev, parentId, descendants) ==
    SelectSeq(setExpanded(prev, parentId, FALSE),
              LAMBDA n : n.id \notin descendants)

\* RepoVisualizer.tsx:484-492
collapseLinks(prev, descendants) ==
    SelectSeq(prev, LAMBDA l : l.source \notin descendants
                               /\ l.target \notin descendants)

\* RepoVisualizer.tsx:501-511
newNodes(parentNode, childrenData) ==
    [k \in DOMAIN childrenData |-> GraphNode(childrenData[k], parentNode.depth + 1)]

\* RepoVisualizer.tsx:518-523
expandNodes(prev, parentNode, childrenData) ==
    setExpanded(prev, parentNode.id, TRUE) \o newNodes(parentNode, childrenData)

\* RepoVisualizer.tsx:513-516, 525-532
expandLinks(prev, parentNode, childrenData) ==
    prev \o [k \in DOMAIN childrenData |->
                GraphLink(parentNode.id, childrenData[k].path)]

\* RepoVisualizer.tsx:173-182: the distance the link force aims at for a
\* link whose target is the GraphNode target
linkDistance(target) ==
    IF target.type = FUNCTION THEN 80
    ELSE IF target.type = FILE THEN 120
    ELSE 180

\* RepoVisualizer.tsx:375-385: the opacity of the expand indicator drawn
\* round the GraphNode d, whose data is read from tree; a symbol's data carries
\* neither children nor an analyzed flag
indicatorOpacity(d, tree) ==
    LET known == d.id \in DOMAIN tree.fs
        kids == known /\ tree.fs[d.id].childrenDefined
                      /\ Len(tree.fs[d.id].children) > 0
        isAnalyzable == d.type = FILE /\ ~(known /\ tree.fs[d.id].analyzed)
    IN IF ~d.isExpanded /\ (kids \/ isAnalyzable) THEN 1 ELSE 0

\* RepoVisualizer.tsx:397: the update effect ends with
\* simulation.alpha(1).restart()
reheat ==
    /\ alpha' = AlphaHot
    /\ ticking' = TRUE

\* RepoVisualizer.tsx:221-222: the update effect hands the node list and the
\* link list to the simulation.  toggleFolder has rewritten every link to a
\* pair of ids, and the link force looks each id up among the nodes; it
\* throws ("node not found") when an id is not there.  Nothing catches the
\* exception and no error boundary surrounds the component.
linkEndMissing(graphNodes, graphLinks) ==
    \E k \in DOMAIN graphLinks :
        \/ \A j \in DOMAIN graphNodes : graphNodes[j].id # graphLinks[k].source
        \/ \A j \in DOMAIN graphNodes : graphNodes[j].id # graphLinks[k].target

\* RepoVisualizer.tsx:215-414: the update effect after a render in which
\* nodes or links changed.  When the link force throws, line 397 is never
\* reached, React unmounts the tree and the cleanup of the init effect
\* (line 209-211) stops the simulation.
updateEffect ==
    /\ uncaught' = linkEndMissing(nodes', links')
    /\ IF uncaught' THEN alpha' = alpha /\ ticking' = FALSE ELSE reheat

\* d3-force, simulation.tick() as the timer calls it: alpha moves towards
\* alphaTarget.  The levels are 1 (AlphaHot), 0.3 (DragAlphaTarget) and
\* below alphaMin (0).
decay(a, target) ==
    IF a > target
    THEN IF a > DragAlphaTarget /\ target < DragAlphaTarget
         THEN DragAlphaTarget ELSE target
    ELSE target

\* RepoVisualizer.tsx:417-439: the Auto-Focus effect, run after a render in
\* which focusNodeId or nodes changed.  When the focused id is truthy and in
\* the node list it starts a transition of the svg towards that node; a
\* transition started on an element interrupts the one running there.
\* Otherwise the running transition, if any, carries on.
autoFocus(focus, graphNodes, depsChanged) ==
    IF depsChanged /\ Truthy(focus)
          /\ \E k \in DOMAIN graphNodes : graphNodes[k].id = focus
    THEN focus
    ELSE transition

\* toggleFolder(parentNode), as called from a render whose links are
\* closureLinks, reading parentNode.data from tree
toggleFolder(parentNode, tree, closureLinks) ==
    LET nodeData == tree.fs[parentNode.id] IN
    IF parentNode.isExpanded
    THEN LET descendants == findDescendants(closureLinks, parentNode.id) IN
         /\ nodes' = collapseNodes(nodes, parentNode.id, descendants)
         /\ links' = collapseLinks(links, descendants)
         /\ focusNodeId' = parentNode.id
         /\ transition' = autoFocus(parentNode.id, nodes', TRUE)
         /\ updateEffect
    ELSE IF ~nodeData.childrenDefined
    THEN UNCHANGED <<nodes, links, focusNodeId, transition, uncaught, alpha,
                     ticking>>
    ELSE /\ nodes' = expandNodes(nodes, parentNode, nodeData.children)
         /\ links' = expandLinks(links, parentNode, nodeData.children)
         /\ focusNodeId' = parentNode.id
         /\ transition' = autoFocus(parentNode.id, nodes', TRUE)
         /\ updateEffect

\* where the object under the pointer sits in the node list after
\* toggleFolder(parentNode): the map in setNodes puts a copy in the place of
\* the object whose id is parentNode.id and the filter drops the descendants
dragSubjectAfter(parentNode, tree, closureLinks) ==
    IF ~drag.active \/ drag.at = 0 THEN drag
    ELSE IF ~parentNode.isExpanded /\ ~tree.fs[parentNode.id].childrenDefined
    THEN drag
    ELSE IF drag.id = parentNode.id THEN [drag EXCEPT !.at = 0]
    ELSE IF ~parentNode.isExpanded THEN drag
    ELSE LET descendants == findDescendants(closureLinks, parentNode.id) IN
         IF drag.id \in descendants THEN [drag EXCEPT !.at = 0]
         ELSE [drag EXCEPT !.at =
                 Cardinality({j \in 1..drag.at : nodes[j].id \notin descendants})]

VisibleIds == {nodes[k].id : k \in DOMAIN nodes}

ExpandedIds == {nodes[k].id : k \in {j \in DOMAIN nodes : nodes[j].isExpanded}}

LinkSet == {<<links[k].source, links[k].target>> : k \in DOMAIN links}

\* the projection as a step found it
Snapshot == [ids |-> VisibleIds, links |-> LinkSet, expanded |-> ExpandedIds]

NoSnapshot == [ids |-> {}, links |-> {}, expanded |-> {}]

\* the step taken, the node it was about, the ids it took off the node list
\* and, for an expand, the projection it started from
Op(op, id, removed) ==
    [op |-> op, id |-> id, removed |-> removed,
     before |-> IF op = "expand" THEN Snapshot ELSE NoSnapshot]

Removed(next) == VisibleIds \ {next[k].id : k \in DOMAIN next}

-----------------------------------------------------------------------------
(* Handlers *)

\* no pointer is down on a node
NoDrag == [active |-> FALSE, id |-> Null, at |-> 0]

\* the gesture on the GraphNode object that sits at nodes[i]; at = 0 once
\* that object is no longer an element of the node list
Dragging(id, i) == [active |-> TRUE, id |-> id, at |-> i]

\* RepoVisualizer.tsx:26-29, 195-207: the component as first rendered
\* with the prop data = tree
mounted(tree) ==
    /\ data = tree
    /\ nodes = <<rootNode(data)>>
    /\ links = <<>>
    /\ analyzingNodeId = Null
    /\ focusNodeId = Null
    /\ transition = Null
    /\ drag = NoDrag
    /\ alphaTarget = 0
    /\ alpha = AlphaHot
    /\ ticking = TRUE
    /\ isDarkMode = TRUE
    /\ theme = "modern"
    /\ resets = 0
    /\ selectedNode = Null
    /\ tasks = <<>>
    /\ uncaught = FALSE
    /\ resolved = <<>>
    /\ lastOp = Op("init", Null, {})

\* part_004:12, 28-38: App showing a tree in the repo view, reached from the
\* home page
AppInRepo ==
    [viewMode |-> "repo", data |-> "repo", universeData |-> {},
     isTransitioning |-> FALSE, transitionTargetId |-> Null, loads |-> <<>>]

\* UserUniverse.tsx:95-96 and 576-603: the state of a UserUniverse just
\* mounted, and the target of the transition running on its svg (Null when
\* none is running)
UniverseMounted == [expandedLanguages |-> {}, transition |-> Null]

Init ==
    /\ \E tree \in Trees : mounted(tree)
    /\ app = AppInRepo
    /\ universe = UniverseMounted

\* variant: any File not yet analyzed is sent to analysis
needsAnalysisUnanalyzed(nodeData) == ~nodeData.analyzed

\* RepoVisualizer.tsx:450
needsAnalysis(nodeData) ==
    ~nodeData.analyzed /\ (Truthy(nodeData.content) \/ Truthy(nodeData.downloadUrl))

\* variant: a single child does not count
hasKidsMany(nodeData) ==
    nodeData.childrenDefined /\ Len(nodeData.children) > 1

\* RepoVisualizer.tsx:452
hasKids(nodeData) ==
    nodeData.childrenDefined /\ Len(nodeData.children) > 0

\* the suspended analyzeFile(node): awaiting the content fetch ("fetch") or
\* analyzeCode(fileName, fileContent) ("analyze").  The links of the render
\* that created the closure are read only by the collapse branch of
\* toggleFolder(node), so they are kept only for a node captured expanded;
\* the pin of the captured node is read by nobody and is not kept.
Task(node, closureLinks, pc, fileContent) ==
    [node |-> [node EXCEPT !.fx = Null, !.fy = Null],
     links |-> IF node.isExpanded THEN closureLinks ELSE <<>>,
     pc |-> pc, fileName |-> node.name, fileContent |-> fileContent]

\* RepoVisualizer.tsx:539-555, up to the first await
analyzeFileStart(d) ==
    LET content == data.fs[d.id].content IN
    /\ Len(tasks) < MaxInFlight
    /\ analyzingNodeId' = d.id
    /\ focusNodeId' = d.id
    /\ transition' = autoFocus(d.id, nodes, focusNodeId # d.id)
    /\ tasks' = Append(tasks,
                  IF ~Truthy(content) /\ Truthy(data.fs[d.id].downloadUrl)
                  THEN Task(d, links, "fetch", Undefined)
                  ELSE Task(d, links, "analyze",
                            IF Truthy(content) THEN content ELSE ""))
    /\ UNCHANGED <<data, nodes, links, uncaught, resolved, alpha, ticking>>
    /\ lastOp' = Op("analyzeStart", d.id, {})

\* variant: only a node that cannot be opened is reported as selected
onNodeSelectLeaf(d) ==
    selectedNode' = IF d.type \in {FOLDER, FILE} THEN selectedNode ELSE d.id

\* RepoVisualizer.tsx:445, 569: the selection sink of the App
onNodeSelect(d) == selectedNode' = d.id

\* variant: the click also flips the symbol's own disclosure flag
clickSymbolToggles(d) ==
    /\ focusNodeId' = d.id
    /\ nodes' = setExpanded(nodes, d.id, TRUE)
    /\ transition' = autoFocus(d.id, nodes', TRUE)
    /\ reheat
    /\ lastOp' = Op("focus", d.id, {})
    /\ UNCHANGED <<data, links, analyzingNodeId, tasks, uncaught, resolved>>

\* RepoVisualizer.tsx:455-457: a click on a Function, Class or Component
clickSymbol(d) ==
    /\ focusNodeId' = d.id
    /\ transition' = autoFocus(d.id, nodes, focusNodeId # d.id)
    /\ lastOp' = Op("focus", d.id, {})
    /\ UNCHANGED <<data, nodes, links, analyzingNodeId, tasks, uncaught,
                   resolved, alpha, ticking>>

\* RepoVisualizer.tsx:443-458
handleNodeClick(i) ==
    LET d == nodes[i] IN
    /\ ~uncaught
    /\ UNCHANGED <<isDarkMode, theme, resets, app, universe>>
    /\ ~drag.active
    /\ UNCHANGED <<drag, alphaTarget>>
    /\ onNodeSelect(d)
    /\ IF d.type = FOLDER
       THEN /\ toggleFolder(d, data, links)
            /\ lastOp' = Op(IF d.isExpanded THEN "collapse" ELSE "expand",
                            d.id, Removed(nodes'))
            /\ UNCHANGED <<data, analyzingNodeId, tasks, resolved>>
       ELSE IF d.type = FILE
       THEN IF needsAnalysis(data.fs[d.id])
            THEN analyzeFileStart(d)
            ELSE IF hasKids(data.fs[d.id])
            THEN /\ toggleFolder(d, data, links)
                 /\ lastOp' = Op(IF d.isExpanded THEN "collapse" ELSE "expand",
                                 d.id, Removed(nodes'))
                 /\ UNCHANGED <<data, analyzingNodeId, tasks, resolved>>
            ELSE /\ lastOp' = Op("select", d.id, {})
                 /\ UNCHANGED <<data, nodes, links, analyzingNodeId, focusNodeId,
                                transition, tasks, uncaught, resolved, alpha,
                                ticking>>
       ELSE clickSymbol(d)

RemoveAt(s, t) == SubSeq(s, 1, t - 1) \o SubSeq(s, t + 1, Len(s))

\* RepoVisualizer.tsx:546-547, 555: the fetch resolves, the content is cached
\* and analyzeCode is called
fetchResolved(t, content) ==
    LET task == tasks[t] IN
    /\ ~uncaught
    /\ UNCHANGED <<alpha, ticking, isDarkMode, theme, resets, app, universe>>
    /\ task.pc = "fetch"
    /\ data' = [data EXCEPT !.fs[task.node.id].content = content]
    /\ tasks' = [tasks EXCEPT ![t] =
                    Task(task.node, task.links, "analyze",
                         IF Truthy(content) THEN content ELSE "")]
    /\ lastOp' = Op("fetchOk", task.node.id, {})
    /\ UNCHANGED <<nodes, links, analyzingNodeId, focusNodeId, transition,
                   drag, alphaTarget, selectedNode, uncaught, resolved>>

\* RepoVisualizer.tsx:548-552, 573-575: the fetch rejects
fetchRejected(t) ==
    LET task == tasks[t] IN
    /\ ~uncaught
    /\ UNCHANGED <<alpha, ticking, isDarkMode, theme, resets, app, universe>>
    /\ task.pc = "fetch"
    /\ analyzingNodeId' = Null
    /\ tasks' = RemoveAt(tasks, t)
    /\ lastOp' = Op("fetchFailed", task.node.id, {})
    /\ UNCHANGED <<data, nodes, links, focusNodeId, transition, drag,
                   alphaTarget, selectedNode, uncaught, resolved>>

\* RepoVisualizer.tsx:557-570, 573-575: analyzeCode resolves with a result
analyzeResolved(t, items) ==
    LET task == tasks[t]
        tree == enrich(data, task.node.id, items)
    IN
    /\ ~uncaught
    /\ UNCHANGED <<isDarkMode, theme, resets, app, universe>>
    /\ task.pc = "analyze"
    /\ data' = tree
    /\ toggleFolder(task.node, tree, task.links)
    /\ drag' = dragSubjectAfter(task.node, tree, task.links)
    /\ UNCHANGED alphaTarget
    /\ onNodeSelect(task.node)
    /\ analyzingNodeId' = Null
    /\ tasks' = RemoveAt(tasks, t)
    /\ resolved' = Append(resolved, [id |-> task.node.id, items |-> items])
    /\ lastOp' = Op("analyzeOk", task.node.id, Removed(nodes'))

\* variant: the file is flagged analyzed before the result is looked at
analyzeNullFlagged(t) ==
    LET task == tasks[t] IN
    /\ ~uncaught
    /\ UNCHANGED <<alpha, ticking, isDarkMode, theme, resets, app, universe>>
    /\ task.pc = "analyze"
    /\ data' = [data EXCEPT !.fs[task.node.id].analyzed = TRUE]
    /\ analyzingNodeId' = Null
    /\ tasks' = RemoveAt(tasks, t)
    /\ lastOp' = Op("analyzeFailed", task.node.id, {})
    /\ UNCHANGED <<nodes, links, focusNodeId, transition, drag, alphaTarget,
                   selectedNode, uncaught, resolved>>

\* geminiService.ts:34, 80-85 and RepoVisualizer.tsx:557, 573-575:
\* analyzeCode resolves with null (no key, no text, or a caught error)
analyzeNull(t) ==
    LET task == tasks[t] IN
    /\ ~uncaught
    /\ UNCHANGED <<alpha, ticking, isDarkMode, theme, resets, app, universe>>
    /\ task.pc = "analyze"
    /\ analyzingNodeId' = Null
    /\ tasks' = RemoveAt(tasks, t)
    /\ lastOp' = Op("analyzeFailed", task.node.id, {})
    /\ UNCHANGED <<data, nodes, links, focusNodeId, transition, drag,
                   alphaTarget, selectedNode, uncaught, resolved>>

\* RepoVisualizer.tsx:436: the running transition reaches its end, the
\* camera rests on its target and the "end" listener clears focusNodeId
focusTransitionEnd ==
    /\ ~uncaught
    /\ UNCHANGED <<alpha, ticking, isDarkMode, theme, resets, app, universe>>
    /\ transition # Null
    /\ focusNodeId' = Null
    /\ transition' = Null
    /\ lastOp' = Op("focusEnd", transition, {})
    /\ UNCHANGED <<data, nodes, links, analyzingNodeId, selectedNode, drag,
                   alphaTarget, tasks, uncaught, resolved>>

\* RepoVisualizer.tsx:160-166: a wheel or pointer gesture on the svg; the
\* zoom behaviour interrupts the transition running there, whose "end"
\* listener is then never called
zoomGesture ==
    /\ ~uncaught
    /\ UNCHANGED <<alpha, ticking, isDarkMode, theme, resets, app, universe>>
    /\ transition' = Null
    /\ lastOp' = Op("zoom", Null, {})
    /\ UNCHANGED <<data, nodes, links, analyzingNodeId, focusNodeId,
                   selectedNode, drag, alphaTarget, tasks, uncaught, resolved>>

\* the node list with the pin of the drag subject set to (x, y), when the
\* subject is still an element of the list
pin(x, y) ==
    IF drag.at = 0 THEN nodes
    ELSE [nodes EXCEPT ![drag.at].fx = x, ![drag.at].fy = y]

\* RepoVisualizer.tsx:399-403: the pointer goes down on the node nodes[i];
\* no other gesture is active, so event.active is 0
dragstarted(i) ==
    /\ ~uncaught
    /\ ~drag.active
    /\ alphaTarget' = DragAlphaTarget
    /\ ticking' = TRUE
    /\ UNCHANGED <<alpha, isDarkMode, theme, resets, app, universe>>
    /\ nodes' = [nodes EXCEPT ![i].fx = "d.x", ![i].fy = "d.y"]
    /\ drag' = Dragging(nodes[i].id, i)
    /\ lastOp' = Op("dragstart", nodes[i].id, {})
    /\ UNCHANGED <<data, links, analyzingNodeId, focusNodeId, selectedNode,
                   transition, tasks, uncaught, resolved>>

\* RepoVisualizer.tsx:404-407: the pointer moves; d is the object the
\* gesture started on
dragged ==
    /\ ~uncaught
    /\ UNCHANGED <<alpha, ticking, isDarkMode, theme, resets, app, universe>>
    /\ drag.active
    /\ nodes' = pin("event.x", "event.y")
    /\ lastOp' = Op("drag", drag.id, {})
    /\ UNCHANGED <<data, links, analyzingNodeId, focusNodeId, selectedNode,
                   transition, drag, alphaTarget, tasks, uncaught, resolved>>

\* RepoVisualizer.tsx:408-412: the pointer is released
dragended ==
    /\ ~uncaught
    /\ UNCHANGED <<alpha, ticking, isDarkMode, theme, resets, app, universe>>
    /\ drag.active
    /\ alphaTarget' = 0
    /\ nodes' = pin(Null, Null)
    /\ drag' = NoDrag
    /\ lastOp' = Op("dragend", drag.id, {})
    /\ UNCHANGED <<data, links, analyzingNodeId, focusNodeId, selectedNode,
                   transition, tasks, uncaught, resolved>>

\* RepoVisualizer.tsx:31-212, 215-414: the prop isDarkMode changes.  The
\* init effect runs again: the old simulation is stopped, the svg is emptied,
\* the zoom is set to the identity (which interrupts the transition running
\* on the svg), a new simulation is made and setNodes([rootNode]) is called;
\* links, focusNodeId and analyzingNodeId are not touched.  The update
\* effect then runs on the new simulation; the links left in the state have
\* been resolved to node objects by the old simulation, so the link force
\* looks nothing up.  The Auto-Focus effect runs because nodes changed.  A
\* gesture under way keeps the node object it started on.
darkModeChange ==
    /\ ~uncaught
    /\ resets < MaxResets
    /\ resets' = resets + 1
    /\ isDarkMode' = ~isDarkMode
    /\ nodes' = <<rootNode(data)>>
    /\ transition' = IF Truthy(focusNodeId) /\ focusNodeId = nodes'[1].id
                     THEN focusNodeId ELSE Null
    /\ drag' = IF drag.active THEN [drag EXCEPT !.at = 0] ELSE drag
    /\ alphaTarget' = 0
    /\ reheat
    /\ lastOp' = Op("darkMode", Null, Removed(nodes'))
    /\ UNCHANGED <<data, links, analyzingNodeId, focusNodeId, selectedNode,
                   theme, tasks, uncaught, resolved, app, universe>>

\* RepoVisualizer.tsx:215-414: the prop theme changes; the update effect has
\* theme among its dependencies and runs again on the same nodes and links
themeChange(t) ==
    /\ ~uncaught
    /\ t # theme
    /\ theme' = t
    /\ reheat
    /\ lastOp' = Op("theme", Null, {})
    /\ UNCHANGED <<data, nodes, links, analyzingNodeId, focusNodeId,
                   selectedNode, transition, drag, alphaTarget, isDarkMode,
                   resets, tasks, uncaught, resolved, app, universe>>

\* RepoVisualizer.tsx:341-358: the pointer enters or leaves the node
\* nodes[i]; the handlers start a transition of the node's own circle and
\* touch neither the state nor the simulation
hover(i) ==
    /\ ~uncaught
    /\ lastOp' = Op("hover", nodes[i].id, {})
    /\ UNCHANGED <<data, nodes, links, analyzingNodeId, focusNodeId,
                   selectedNode, transition, drag, alphaTarget, alpha, ticking,
                   isDarkMode, theme, resets, tasks, uncaught, resolved, app, universe>>

\* RepoVisualizer.tsx:387-395 and d3-force: the simulation's timer fires;
\* alpha decays, the "tick" listener moves the elements, and the timer stops
\* itself once alpha is below alphaMin
tick ==
    /\ ~uncaught
    /\ ticking
    /\ alpha' = decay(alpha, alphaTarget)
    /\ ticking' = (alpha' # 0)
    /\ lastOp' = Op("tick", Null, {})
    /\ UNCHANGED <<data, nodes, links, analyzingNodeId, focusNodeId,
                   selectedNode, transition, drag, alphaTarget, isDarkMode,
                   theme, resets, tasks, uncaught, resolved, app, universe>>

Next ==
    \/ \E i \in DOMAIN nodes : handleNodeClick(i)
    \/ \E t \in DOMAIN tasks : \E content \in FetchedContents :
          fetchResolved(t, content)
    \/ \E t \in DOMAIN tasks : fetchRejected(t)
    \/ \E t \in DOMAIN tasks : \E items \in ItemSeqs : analyzeResolved(t, items)
    \/ \E t \in DOMAIN tasks : analyzeNull(t)
    \/ focusTransitionEnd
    \/ zoomGesture
    \/ darkModeChange

Spec == Init /\ [][Next]_vars

\* the trees on which the drag gestures are explored
DragTrees == {parseFilesToTree, fetchGithubRepo}

InitDrag == Init /\ data \in DragTrees

\* the clicks and the enrichment steps together with the drag gestures; the
\* camera is left at rest
NextDrag ==
    \/ \E i \in DOMAIN nodes : handleNodeClick(i)
    \/ \E t \in DOMAIN tasks : \E content \in FetchedContents :
          fetchResolved(t, content)
    \/ \E t \in DOMAIN tasks : fetchRejected(t)
    \/ \E t \in DOMAIN tasks : \E items \in ItemSeqs : analyzeResolved(t, items)
    \/ \E t \in DOMAIN tasks : analyzeNull(t)
    \/ \E i \in DOMAIN nodes : dragstarted(i)
    \/ dragged
    \/ dragended

SpecDrag == InitDrag /\ [][NextDrag]_vars

InitTwoFiles ==
    /\ mounted(parseFilesToTreeTwoFiles)
    /\ app = AppInRepo
    /\ universe = UniverseMounted

\* the clicks and the enrichment steps on a folder of two files
NextTwoFiles ==
    \/ \E i \in DOMAIN nodes : handleNodeClick(i)
    \/ \E t \in DOMAIN tasks : \E items \in ItemSeqs : analyzeResolved(t, items)
    \/ \E t \in DOMAIN tasks : analyzeNull(t)

SpecTwoFiles == InitTwoFiles /\ [][NextTwoFiles]_vars

\* a repository of the scanned user as fetchUserRepos lists it
GithubRepo(id, name, language) == [id |-> id, name |-> name, language |-> language]

\* the repositories of the scanned user
UserRepos == {GithubRepo("1", "web", "TypeScript"), GithubRepo("2", "cli", "Go")}

\* UserUniverse.tsx:149-155: the id of a repository's node
repoNodeId(repo) == "repo-" \o repo.id

\* UserUniverse.tsx:102-181: the ids of the repository nodes in the memoized
\* node list; a repository has a node only while its language is expanded
universeRepoNodes(repos, expandedLanguages) ==
    {repoNodeId(r) : r \in {q \in repos : q.language \in expandedLanguages}}

\* UserUniverse.tsx:576-603: the Auto-Focus / Transition effect, run after a
\* render in which focusedNodeId or nodes changed; focusNodeId is never set
\* to an id.  interrupted tells that the main effect ran before it and set
\* the zoom anew (line 334-336), which ends the transition running there.
universeAutoFocus(targetId, repos, expandedLanguages, interrupted) ==
    IF Truthy(targetId) /\ targetId \in universeRepoNodes(repos, expandedLanguages)
    THEN targetId
    ELSE IF interrupted THEN Null ELSE universe.transition

\* every variable of the mounted RepoVisualizer
repoView == <<data, nodes, links, analyzingNodeId, focusNodeId, transition,
              drag, alphaTarget, alpha, ticking, isDarkMode, theme, resets,
              tasks, uncaught, resolved>>

\* UserUniverse.tsx:549-558: a click on the node of language l
universeClickLanguage(l) ==
    /\ app.viewMode = "universe"
    /\ universe' =
          LET expanded == IF l \in universe.expandedLanguages
                          THEN universe.expandedLanguages \ {l}
                          ELSE universe.expandedLanguages \cup {l}
          IN [expandedLanguages |-> expanded,
              transition |-> universeAutoFocus(app.transitionTargetId,
                                               app.universeData, expanded, TRUE)]
    /\ lastOp' = Op("clickLanguage", l, {})
    /\ UNCHANGED <<repoView, selectedNode, app>>

\* UserUniverse.tsx:559-563 and part_004:360-362: a click on the node of
\* repository r calls handleRepoSelect, which awaits fetchRepoTree
universeClickRepo(r) ==
    /\ app.viewMode = "universe"
    /\ repoNodeId(r) \in universeRepoNodes(app.universeData,
                                           universe.expandedLanguages)
    /\ Len(app.loads) < MaxLoads
    /\ app' = [app EXCEPT !.loads = Append(@, r)]
    /\ lastOp' = Op("clickRepo", repoNodeId(r), {})
    /\ UNCHANGED <<repoView, selectedNode, universe>>

\* part_004:378-390: fetchRepoTree resolves for the call at loads[k]; the
\* tree is stored and the transition is asked for, and the Auto-Focus
\* effect of a mounted UserUniverse runs when focusedNodeId changed
handleRepoSelectResolved(k) ==
    LET repo == app.loads[k] IN
    /\ app' = [app EXCEPT !.data = repo.name,
                          !.transitionTargetId = repoNodeId(repo),
                          !.isTransitioning = TRUE,
                          !.loads = RemoveAt(@, k)]
    /\ selectedNode' = Null
    /\ universe' =
          IF app.viewMode = "universe"
                /\ app.transitionTargetId # repoNodeId(repo)
          THEN [universe EXCEPT !.transition =
                   universeAutoFocus(repoNodeId(repo), app.universeData,
                                     universe.expandedLanguages, FALSE)]
          ELSE universe
    /\ lastOp' = Op("loadOk", repoNodeId(repo), {})
    /\ UNCHANGED repoView

\* part_004:391-396: fetchRepoTree rejects for the call at loads[k]
handleRepoSelectRejected(k) ==
    /\ app' = [app EXCEPT !.loads = RemoveAt(@, k)]
    /\ lastOp' = Op("loadFailed", repoNodeId(app.loads[k]), {})
    /\ UNCHANGED <<repoView, selectedNode, universe>>

\* UserUniverse.tsx:324-331: a wheel or pointer gesture on the svg of the
\* universe interrupts the transition running there
universeZoomGesture ==
    /\ app.viewMode = "universe"
    /\ universe' = [universe EXCEPT !.transition = Null]
    /\ lastOp' = Op("universeZoom", Null, {})
    /\ UNCHANGED <<repoView, selectedNode, app>>

\* UserUniverse.tsx:597-600 and part_004:399-405: the transition reaches its
\* end (also on an svg that has left the document) and calls the
\* handleTransitionComplete of the render that started it, in which
\* isTransitioning was true
handleTransitionComplete ==
    /\ universe.transition # Null
    /\ app' = [app EXCEPT !.viewMode = "repo",
                          !.isTransitioning = FALSE,
                          !.transitionTargetId = Null]
    /\ universe' = UniverseMounted
    /\ lastOp' = Op("transitionEnd", universe.transition, {})
    /\ UNCHANGED <<repoView, selectedNode>>

\* part_004:429-447: the back button
backButton ==
    /\ app.viewMode # "home"
    /\ IF app.viewMode = "repo" /\ app.universeData # {}
       THEN /\ app' = [app EXCEPT !.viewMode = "universe"]
            /\ universe' = UniverseMounted
       ELSE /\ app' = [app EXCEPT !.data = Null, !.viewMode = "home",
                                  !.universeData = {}]
            /\ universe' = [universe EXCEPT !.expandedLanguages = {}]
    /\ selectedNode' = Null
    /\ lastOp' = Op("back", Null, {})
    /\ UNCHANGED repoView

\* part_004:286-319: a scan started on the home page answers with the
\* user's repositories, once no transition of an earlier universe is left
handleScanUniverse ==
    /\ app.viewMode = "home"
    /\ universe.transition = Null
    /\ app' = [app EXCEPT !.universeData = UserRepos, !.viewMode = "universe"]
    /\ universe' = UniverseMounted
    /\ lastOp' = Op("scan", Null, {})
    /\ UNCHANGED <<repoView, selectedNode>>

\* part_004:28-38: App on the home page
AppAtHome ==
    [viewMode |-> "home", data |-> Null, universeData |-> {},
     isTransitioning |-> FALSE, transitionTargetId |-> Null, loads |-> <<>>]

InitApp ==
    /\ mounted(fetchRepoTree)
    /\ app = AppAtHome
    /\ universe = UniverseMounted

NextApp ==
    \/ handleScanUniverse
    \/ \E l \in {r.language : r \in UserRepos} : universeClickLanguage(l)
    \/ \E r \in UserRepos : universeClickRepo(r)
    \/ \E k \in DOMAIN app.loads : handleRepoSelectResolved(k)
    \/ \E k \in DOMAIN app.loads : handleRepoSelectRejected(k)
    \/ universeZoomGesture
    \/ handleTransitionComplete
    \/ backButton

\* a transition that was started runs to its end unless it is interrupted
SpecApp == InitApp /\ [][NextApp]_vars /\ WF_vars(handleTransitionComplete)

\* the themes of the theme prop (RepoVisualizer.tsx:18)
Themes == {"modern", "crayon", "pencil"}

InitSim == Init /\ data = parseFilesToTree

\* the clicks, the enrichment steps, the presentation props, the pointer and
\* the simulation's timer on the local tree
NextSim ==
    \/ \E i \in DOMAIN nodes : handleNodeClick(i)
    \/ \E t \in DOMAIN tasks : \E items \in ItemSeqs : analyzeResolved(t, items)
    \/ \E t \in DOMAIN tasks : analyzeNull(t)
    \/ focusTransitionEnd
    \/ darkModeChange
    \/ \E t \in Themes : themeChange(t)
    \/ \E i \in DOMAIN nodes : hover(i)
    \/ tick

\* the timer of a running simulation keeps firing
SpecSim == InitSim /\ [][NextSim]_vars /\ WF_vars(tick)

\* the clicks, the enrichment steps, the dark mode switch, the drag gestures
\* and the simulation's timer on the local tree
NextSettle ==
    \/ \E i \in DOMAIN nodes : handleNodeClick(i)
    \/ \E t \in DOMAIN tasks : \E items \in ItemSeqs : analyzeResolved(t, items)
    \/ \E t \in DOMAIN tasks : analyzeNull(t)
    \/ darkModeChange
    \/ \E i \in DOMAIN nodes : dragstarted(i)
    \/ dragended
    \/ tick

SpecSettle == InitSim /\ [][NextSettle]_vars /\ WF_vars(tick)

-----------------------------------------------------------------------------
(* Tree and graph vocabulary of the properties *)

ChildIds(tree, p) == {tree.fs[p].children[k].path : k \in DOMAIN tree.fs[p].children}

TreeIds(tree) == DOMAIN tree.fs \cup UNION {ChildIds(tree, p) : p \in DOMAIN tree.fs}

ParentIds(tree, x) == {p \in DOMAIN tree.fs : x \in ChildIds(tree, p)}

RECURSIVE AncestorIds(_, _)
AncestorIds(tree, x) ==
    ParentIds(tree, x) \cup UNION {AncestorIds(tree, p) : p \in ParentIds(tree, x)}

FileIds == {p \in DOMAIN data.fs : data.fs[p].type = FILE}

\* C1: the ids of the node list are exactly the root and the tree nodes all
\* of whose proper ancestors are visible and expanded.
C1_VisibleSet ==
    VisibleIds = {x \in TreeIds(data) : AncestorIds(data, x) \subseteq ExpandedIds}

\* C2: a link (s, t) is in the link list exactly when s and t are both
\* visible and s is the parent of t in the tree.
C2_LinksMirrorTree ==
    LinkSet = {st \in VisibleIds \X VisibleIds : st[1] \in ParentIds(data, st[2])}

\* C3: at most one enrichment of a File is in flight at any time, so two
\* clicks on an unanalyzed File lead to one analyzeCode invocation.
C3_OneInFlightPerFile ==
    \A t1, t2 \in DOMAIN tasks :
        tasks[t1].node.id = tasks[t2].node.id => t1 = t2

\* C4 (as claimed): no File node is expanded while its tree node has zero
\* children.
C4_ExpandedFileHasChildren ==
    \A k \in DOMAIN nodes :
        (nodes[k].type = FILE /\ nodes[k].isExpanded)
            => Len(data.fs[nodes[k].id].children) > 0

\* C4 (amended): the tree mutation precedes the graph mutation: every File
\* node that is expanded has a tree node that is analyzed and carries a
\* children array (possibly an empty one).
C4_ExpandedFileIsAnalyzed ==
    \A k \in DOMAIN nodes :
        (nodes[k].type = FILE /\ nodes[k].isExpanded)
            => /\ data.fs[nodes[k].id].analyzed
               /\ data.fs[nodes[k].id].childrenDefined

C4_Witness ==
    /\ lastOp.op = "analyzeOk"
    /\ \E k \in DOMAIN nodes :
          /\ nodes[k].id = lastOp.id
          /\ nodes[k].type = FILE
          /\ nodes[k].isExpanded

\* the results analyzeCode resolved with for file f, oldest first
ResolvedFor(f) ==
    LET hits == SelectSeq(resolved, LAMBDA r : r.id = f)
    IN  [k \in DOMAIN hits |-> hits[k].items]

IngestedTree == CHOOSE t \in Trees : t.root = data.root

\* C5: when every completed enrichment of a File resolved with the same
\* result, the File's children are those of a single enrichment with that
\* result, however many enrichments completed.
C5_EnrichIdempotent ==
    \A f \in FileIds :
        LET rs == ResolvedFor(f) IN
        (rs # <<>> /\ \A k \in DOMAIN rs : rs[k] = rs[1])
            => data.fs[f].children = enrich(IngestedTree, f, rs[1]).fs[f].children

C5_Witness ==
    \E f \in FileIds :
        LET rs == ResolvedFor(f) IN
        /\ Len(rs) >= 2
        /\ \A k \in DOMAIN rs : rs[k] = rs[1]
        /\ rs[1] # <<>>

\* the nodes reachable from the set S along the links E
RECURSIVE ReachFrom(_, _)
ReachFrom(S, E) ==
    LET next == S \cup {e[2] : e \in {x \in E : x[1] \in S}}
    IN  IF next = S THEN S ELSE ReachFrom(next, E)

LinkDescendants(a, E) == ReachFrom({a}, E) \ {a}

Keep(n, a) == IF n.id = a THEN [n EXCEPT !.isExpanded = FALSE] ELSE n

\* C6: a collapse of A removes exactly the transitive link descendants of A
\* and the links touching them, keeps every other node and link, and leaves A
\* in the list with isExpanded = false.
C6_CollapseRemovesDescendants ==
    [][lastOp'.op = "collapse" =>
        LET a == lastOp'.id
            D == LinkDescendants(a, LinkSet)
            kept == {k \in DOMAIN nodes : nodes[k].id \notin D}
        IN  /\ a \notin D
            /\ {nodes'[k].id : k \in DOMAIN nodes'} = VisibleIds \ D
            /\ Len(nodes') = Cardinality(kept)
            /\ {nodes'[k] : k \in DOMAIN nodes'} = {Keep(nodes[k], a) : k \in kept}
            /\ {<<links'[k].source, links'[k].target>> : k \in DOMAIN links'}
                 = {e \in LinkSet : e[1] \notin D /\ e[2] \notin D}
            /\ \E k \in DOMAIN nodes' : nodes'[k].id = a /\ ~nodes'[k].isExpanded
            /\ data' = data
    ]_vars

\* a collapse has just removed a node together with that node's own child
C6_Witness ==
    /\ lastOp.op = "collapse"
    /\ lastOp.id \in VisibleIds
    /\ \E x \in lastOp.removed :
          /\ ParentIds(data, x) \cap lastOp.removed # {}
          /\ lastOp.id \notin ParentIds(data, x)

ClickOps == {"expand", "collapse", "analyzeStart", "select", "focus"}

Step(op, id) == lastOp'.op = op /\ lastOp'.id = id

\* C7: on the tree repo -> src -> main.ts (a File with content) with only
\* the root visible: expanding the root shows {repo, src} and the link
\* repo -> src; expanding src shows {repo, src, main.ts}; the click on
\* main.ts calls the analysis once, with ("main.ts", content); and when
\* that resolves with the one Function item run, the graph is {repo, src,
\* main.ts, main.ts#run} and main.ts is analyzed.
C7_Scenario ==
    [][data.root = "repo" =>
        LET root == "repo"
            src == "repo/src"
            main == "repo/src/main.ts"
            run == "repo/src/main.ts#run"
            ids == {nodes'[k].id : k \in DOMAIN nodes'}
        IN
        /\ (nodes = <<rootNode(data)>> /\ links = <<>>
              /\ lastOp'.op \in ClickOps /\ lastOp'.id = root)
              => /\ ids = {root, src}
                 /\ Len(nodes') = 2
                 /\ links' = <<[source |-> root, target |-> src]>>
        /\ (VisibleIds = {root, src} /\ Len(nodes) = 2
              /\ links = <<[source |-> root, target |-> src]>>
              /\ ~nodes[2].isExpanded
              /\ lastOp'.op \in ClickOps /\ lastOp'.id = src)
              => /\ ids = {root, src, main}
                 /\ Len(nodes') = 3
                 /\ LinkSet' = {<<root, src>>, <<src, main>>}
        /\ (VisibleIds = {root, src, main} /\ tasks = <<>>
              /\ ~data.fs[main].analyzed
              /\ lastOp'.op \in ClickOps /\ lastOp'.id = main)
              => /\ Len(tasks') = 1
                 /\ tasks'[1].pc = "analyze"
                 /\ tasks'[1].fileName = "main.ts"
                 /\ tasks'[1].fileContent = data.fs[main].content
                 /\ data.fs[main].content = "code"
                 /\ nodes' = nodes
        /\ (VisibleIds = {root, src, main} /\ Len(nodes) = 3 /\ Len(tasks) = 1
              /\ LinkSet = {<<root, src>>, <<src, main>>}
              /\ Step("analyzeOk", main)
              /\ resolved' = <<[id |-> main,
                                items |-> <<[name |-> "run", type |-> "FUNCTION"]>>]>>)
              => /\ ids = {root, src, main, run}
                 /\ Len(nodes') = 4
                 /\ LinkSet' = {<<root, src>>, <<src, main>>, <<main, run>>}
                 /\ data'.fs[main].analyzed
                 /\ tasks' = <<>>
    ]_vars

C7_Witness ==
    /\ data.root = "repo"
    /\ lastOp = Op("analyzeOk", "repo/src/main.ts", {})
    /\ resolved = <<[id |-> "repo/src/main.ts",
                     items |-> <<[name |-> "run", type |-> "FUNCTION"]>>]>>
    /\ VisibleIds = {"repo", "repo/src", "repo/src/main.ts", "repo/src/main.ts#run"}
    /\ Len(nodes) = 4
    /\ data.fs["repo/src/main.ts"].analyzed

\* C8: when an enrichment fails (the fetch rejects or analyzeCode resolves
\* with null) nothing is thrown out of the click handler, the tree's
\* analyzed flag and children, the node list and the link list are
\* unchanged, and a click on the still unanalyzed File starts analyzeFile
\* again.
C8_FailedEnrichment ==
    /\ [][lastOp'.op \in {"fetchFailed", "analyzeFailed"} =>
            LET f == lastOp'.id IN
            /\ ~uncaught'
            /\ data'.fs[f].analyzed = data.fs[f].analyzed
            /\ data'.fs[f].children = data.fs[f].children
            /\ data'.fs[f].childrenDefined = data.fs[f].childrenDefined
            /\ nodes' = nodes
            /\ links' = links
       ]_vars
    /\ [](\A k \in DOMAIN nodes :
            (/\ lastOp.op \in {"fetchFailed", "analyzeFailed"}
             /\ nodes[k].id = lastOp.id
             /\ ~data.fs[lastOp.id].analyzed)
                => ENABLED (handleNodeClick(k) /\ lastOp'.op = "analyzeStart"))

\* an enrichment of a visible File has just failed and left it unanalyzed
C8_Witness ==
    /\ lastOp.op \in {"fetchFailed", "analyzeFailed"}
    /\ lastOp.id \in VisibleIds
    /\ ~data.fs[lastOp.id].analyzed
    /\ ~data.fs[lastOp.id].childrenDefined

\* C9: no step removes a tree node id.
C9_TreeNeverShrinks ==
    [][TreeIds(data) \subseteq TreeIds(data')]_vars

\* C10: the ids of the tree nodes are pairwise distinct: no children array
\* holds the same id twice and no id sits under two parents.
C10_TreeIdsDistinct ==
    /\ \A p \in DOMAIN data.fs :
          \A j, k \in DOMAIN data.fs[p].children :
              data.fs[p].children[j].path = data.fs[p].children[k].path => j = k
    /\ \A x \in TreeIds(data) : Cardinality(ParentIds(data, x)) <= 1

\* the step is a click on a visible node of the given type
Clicked(type) ==
    /\ lastOp'.op \in ClickOps
    /\ \E k \in DOMAIN nodes : nodes[k].id = lastOp'.id /\ nodes[k].type = type

C12_SymbolClick ==
    [][(Clicked(FUNCTION) \/ Clicked(CLASS) \/ Clicked(COMPONENT)) =>
          /\ UNCHANGED <<nodes, links, data, tasks, analyzingNodeId>>
          /\ focusNodeId' = lastOp'.id
          /\ selectedNode' = lastOp'.id
    ]_vars

C12_Witness ==
    /\ lastOp.op = "focus"
    /\ focusNodeId = lastOp.id
    /\ \E k \in DOMAIN nodes :
          nodes[k].id = lastOp.id /\ nodes[k].type \in {FUNCTION, CLASS, COMPONENT}

\* C13: every click on a visible node, whatever the node's type, reports that
\* node to onNodeSelect.
C13_ClickSelects ==
    [][lastOp'.op \in ClickOps =>
          /\ lastOp'.id \in VisibleIds
          /\ selectedNode' = lastOp'.id
    ]_vars

\* a click has opened a Folder below the root and moved the selection to it
C13_Witness ==
    /\ lastOp.op = "expand"
    /\ lastOp.id # data.root
    /\ data.fs[lastOp.id].type = FOLDER
    /\ selectedNode = lastOp.id

\* the File has no content, no download URL and no children
Inert(nodeData) ==
    /\ ~Truthy(nodeData.content)
    /\ ~Truthy(nodeData.downloadUrl)
    /\ Len(nodeData.children) = 0

\* C16: a click on a File that has no content, no download URL and no
\* children leaves the node list, the link list and the tree as they are and
\* starts no fetch and no analysis.
C16_InertFileClick ==
    [][(Clicked(FILE) /\ Inert(data.fs[lastOp'.id])) =>
          UNCHANGED <<nodes, links, data, tasks, analyzingNodeId, focusNodeId>>
    ]_vars

C16_Witness ==
    /\ lastOp.op = "select"
    /\ lastOp.id \in FileIds
    /\ Inert(data.fs[lastOp.id])
    /\ ~data.fs[lastOp.id].analyzed
    /\ selectedNode = lastOp.id
    /\ tasks = <<>>

\* C17: a single click on a Folder node only selects it: the set of visible
\* nodes and the isExpanded flags stay as they are.
C17_SingleClickOnlySelects ==
    [][Clicked(FOLDER) =>
          /\ {nodes'[k].id : k \in DOMAIN nodes'} = VisibleIds
          /\ {nodes'[k].id : k \in {j \in DOMAIN nodes' : nodes'[j].isExpanded}}
                = ExpandedIds
    ]_vars

\* C18: the node list never holds two GraphNodes with the same id and the
\* link list never holds two links with the same source and target.
C18_NoDuplicates ==
    /\ \A j, k \in DOMAIN nodes : nodes[j].id = nodes[k].id => j = k
    /\ \A j, k \in DOMAIN links :
          (links[j].source = links[k].source /\ links[j].target = links[k].target)
             => j = k

\* C19: a click that expands a collapsed node A followed at once by the
\* click that collapses A restores the node id set, the link set and every
\* isExpanded flag to what they were before the expand; and a collapse of a
\* node none of whose children is visible changes nothing except that
\* node's isExpanded flag.
C19_ExpandCollapseRoundTrip ==
    [][/\ (lastOp.op = "expand" /\ lastOp'.op = "collapse"
             /\ lastOp'.id = lastOp.id)
          => /\ {nodes'[k].id : k \in DOMAIN nodes'} = lastOp.before.ids
             /\ {<<links'[k].source, links'[k].target>> : k \in DOMAIN links'}
                   = lastOp.before.links
             /\ {nodes'[k].id : k \in {j \in DOMAIN nodes' : nodes'[j].isExpanded}}
                   = lastOp.before.expanded
       /\ (lastOp'.op = "collapse"
             /\ ChildIds(data, lastOp'.id) \cap VisibleIds = {})
          => /\ nodes' = [k \in DOMAIN nodes |-> Keep(nodes[k], lastOp'.id)]
             /\ links' = links
             /\ data' = data
    ]_vars

\* C20: the root GraphNode has depth 0 and every other visible GraphNode has
\* a visible parent GraphNode, linked to it, whose depth is one less.
C20_DepthIsPathLength ==
    \A k \in DOMAIN nodes :
        IF nodes[k].id = data.root
        THEN nodes[k].depth = 0
        ELSE \E j \in DOMAIN nodes :
                /\ <<nodes[j].id, nodes[k].id>> \in LinkSet
                /\ nodes[k].depth = nodes[j].depth + 1

\* C14: a focus request (focusNodeId set to a node id it did not hold)
\* cancels the focus animation in flight, so that the only animation that can
\* be running afterwards is the one towards the requested node; a pan or zoom
\* gesture leaves no animation running; and an animation that runs to its end
\* is the one of the most recent request.
C14_FocusReplaces ==
    [][/\ (focusNodeId' # focusNodeId /\ focusNodeId' # Null)
            => transition' \in {Null, focusNodeId'}
       /\ lastOp'.op = "zoom" => transition' = Null
       /\ lastOp'.op = "focusEnd" => transition = focusNodeId
    ]_vars

\* the GraphNode is held in place by the simulation
Pinned(n) == n.fx # Null /\ n.fy # Null

\* C15: while a drag gesture is in progress the simulation's alpha target is
\* 0.3 and the dragged node, as long as it is in the node list, is pinned,
\* after a drag event at the pointer position; when the gesture ends the
\* alpha target is 0 and the node's pin is cleared.
C15_DragPins ==
    /\ [](drag.active =>
            /\ alphaTarget = DragAlphaTarget
            /\ drag.id \in VisibleIds =>
                  \E k \in DOMAIN nodes : nodes[k].id = drag.id /\ Pinned(nodes[k]))
    /\ [][/\ (lastOp'.op = "drag" /\ lastOp'.id \in VisibleIds) =>
                \E k \in DOMAIN nodes' :
                    /\ nodes'[k].id = lastOp'.id
                    /\ nodes'[k].fx = "event.x"
                    /\ nodes'[k].fy = "event.y"
          /\ lastOp'.op = "dragend" =>
                /\ alphaTarget' = 0
                /\ \A k \in DOMAIN nodes' :
                      nodes'[k].id = lastOp'.id => ~Pinned(nodes'[k])
       ]_vars

\* C24: when the enrichment of a File completes while the File is not in the
\* node list, the completion adds no GraphNode and no link.
C24_HiddenFileCompletion ==
    [][(lastOp'.op = "analyzeOk" /\ lastOp'.id \notin VisibleIds) =>
          /\ nodes' = nodes
          /\ links' = links
    ]_vars

\* C27: the completion of an enrichment does not move the selection away
\* from a different node, one the user clicked after starting the enrichment.
C27_SelectionFollowsClicks ==
    [][(lastOp'.op = "analyzeOk" /\ selectedNode # lastOp'.id) =>
          selectedNode' = selectedNode
    ]_vars

\* C28: as long as no File has two enrichments in flight at once,
\* analyzingNodeId is non-null exactly while at least one enrichment is in
\* flight; in particular, when the enrichments of two different Files
\* overlap, the end of one does not clear it while the other is running.
C28_IndicatorWhileInFlight ==
    (\A j, k \in DOMAIN tasks : tasks[j].node.id = tasks[k].node.id => j = k)
        => (analyzingNodeId # Null <=> tasks # <<>>)

\* the steps the user takes in the universe view and on the nav bar
UserOps == {"clickLanguage", "clickRepo", "universeZoom", "back", "scan"}

\* C30 (first half): once a repository's tree has loaded while the universe
\* view is shown, the repo view is eventually shown unless the user acts
\* again.
C30_LoadLeadsToRepoView ==
    (lastOp.op = "loadOk" /\ app.viewMode = "universe")
        ~> (app.viewMode = "repo" \/ lastOp.op \in UserOps)

\* C30 (second half): whenever the repo view is shown the loaded tree is
\* not null.
C30_RepoViewHasData == app.viewMode = "repo" => app.data # Null

\* C30: after a repository node was clicked in the universe view and its
\* tree has loaded, the application eventually switches to the repo view
\* without further user input, whatever the user did while the load was in
\* flight; and whenever viewMode is 'repo' the tree data is non-null.
C30_UniverseToRepo == C30_LoadLeadsToRepoView /\ []C30_RepoViewHasData

\* C29: whenever no drag is in progress, no GraphNode other than the root is
\* pinned.
C29_NoPinWithoutDrag ==
    ~drag.active =>
        \A k \in DOMAIN nodes : nodes[k].id # data.root => ~Pinned(nodes[k])

\* a step that changes the visible set, the link set or an isExpanded flag
TopologyStep ==
    \/ VisibleIds' # VisibleIds
    \/ LinkSet' # LinkSet
    \/ ExpandedIds' # ExpandedIds

\* C21 (first half): an expand or a collapse that changes the visible set
\* sets alpha to 1 and leaves the timer running.
C21_ReheatOnTopologyChange ==
    [][(lastOp'.op \in {"expand", "collapse"} /\ VisibleIds' # VisibleIds)
          => (alpha' = AlphaHot /\ ticking')]_vars

\* C21 (second half): once no drag is in progress and the topology changes
\* no more, the timer eventually stops for good.
C21_Settles ==
    (<>[](~drag.active) /\ <>[][~TopologyStep]_vars) => <>[](~ticking)

\* C21: every expand or collapse that changes the visible set reheats the
\* simulation, and once no drag is in progress and no further topology
\* change occurs, alpha decays below its threshold and ticking stops.
C21_ReheatAndSettle == C21_ReheatOnTopologyChange /\ C21_Settles

\* the step just taken is a hover, a click on a symbol node, a failed
\* enrichment, the end of a focus animation or a theme change
NeutralStep ==
    \/ lastOp'.op \in {"hover", "analyzeFailed", "focusEnd", "theme"}
    \/ /\ lastOp'.op = "focus"
       /\ \E k \in DOMAIN nodes :
             /\ nodes[k].id = lastOp'.id
             /\ nodes[k].type \in {FUNCTION, CLASS, COMPONENT}

\* C22: a hover, a click on a symbol node, a failed enrichment, the end of
\* a focus animation and a theme change leave the node list, the link list
\* and the simulation's alpha as they were.
C22_NeutralStepKeepsAlpha ==
    [][NeutralStep =>
          /\ nodes' = nodes
          /\ links' = links
          /\ alpha' = alpha
          /\ ticking' = ticking
    ]_vars

\* C23: the distance of a link depends only on the kind of its target, every
\* symbol target (Function, Class, Component) gets a strictly smaller
\* distance than a File target, and a File target a strictly smaller one
\* than a Folder target.
C23_DistanceOrderedByKind ==
    \A a, b \in {nodes[k] : k \in DOMAIN nodes} :
        /\ a.type = b.type => linkDistance(a) = linkDistance(b)
        /\ (a.type \in {FUNCTION, CLASS, COMPONENT} /\ b.type = FILE)
              => linkDistance(a) < linkDistance(b)
        /\ (a.type = FILE /\ b.type = FOLDER)
              => linkDistance(a) < linkDistance(b)

\* C25: a change of isDarkMode or of theme leaves the node list, the link
\* list and every isExpanded flag as they were.
C25_ThemeChangeKeepsProjection ==
    [][(isDarkMode' # isDarkMode \/ theme' # theme) =>
          /\ nodes' = nodes
          /\ links' = links
    ]_vars

\* C26: a collapsed node shows the expand indicator exactly when a click on
\* it would reveal children or start an enrichment: it has a child, or it is
\* a File not yet analyzed that has content or a download URL.
C26_IndicatorMeansClickable ==
    \A k \in DOMAIN nodes :
        ~nodes[k].isExpanded =>
            (indicatorOpacity(nodes[k], data) = 1
               <=> /\ nodes[k].id \in DOMAIN data.fs
                   /\ \/ hasKids(data.fs[nodes[k].id])
                      \/ /\ nodes[k].type = FILE
                         /\ needsAnalysis(data.fs[nodes[k].id]))

====
